---- MODULE Spec2Model ----
(***************************************************************************)
(* A model of GPTCodeFeeder.py: the size pass that derives the token       *)
(* limit, the directory walk that chunks every code file, and the delivery *)
(* of the chunks either to the OpenAI API (one request per chunk) or to    *)
(* numbered chunk_<n>.txt files.                                           *)
(*                                                                         *)
(* A file's content and a text are sequences of one-character strings;     *)
(* reading a file turns the first into the second.                         *)
(* The project directory is one level deep; os.walk lists its files in the *)
(* order of `tree`, the same order in each of the three walks of one run.  *)
(***************************************************************************)
EXTENDS Integers, Sequences, FiniteSets, TLC

\* ---------------------------------------------------------------- bounds
MaxFiles == 2
MaxLen == 2
MaxTarget == 3

\* ------------------------------------------------------ program constants
SAFE_MARGIN == 500
DEFAULT_TARGET_CHUNKS == 10
HARD_CEILING == 4000

CODE_FILE_EXTENSIONS == {".py", ".js", ".cpp", ".c", ".h", ".java", ".rb", ".go", ".php", ".html", ".css"}
AUXILIARY_FILE_EXTENSIONS == {".dll", ".so", ".exe", ".bin", ".o", ".class", ".jar", ".lib"}

\* ----------------------------------------------------------------- inputs
\* The characters of the files of a run: one that ends a line and one that
\* does not.
Alphabet == {"a", "\n"}

\* The characters of the files get_file_chunks is applied to on its own: the
\* carriage return as well, alone or before a line feed.
WideAlphabet == {"a", "\n", "\r"}

\* The --action value the runs are started with.  No branch of the run up to
\* the closing instructions reads the action; this one has a character that
\* line 157 replaces.
Actions == {"code-review"}

Modes == {"api", "web"}

RECURSIVE TextsOfLen(_, _)
TextsOfLen(alphabet, n) ==
  IF n = 0 THEN {<<>>}
  ELSE {Append(t, c) : t \in TextsOfLen(alphabet, n - 1), c \in alphabet}

Texts == UNION {TextsOfLen(Alphabet, n) : n \in 0..MaxLen}

WideTexts == UNION {TextsOfLen(WideAlphabet, n) : n \in 0..(MaxLen + 1)}

\* A code file of ASCII characters: as many bytes as characters.
CodeFile(i, t) ==
  [stem |-> i, ext |-> ".py", size |-> Len(t), exists |-> TRUE,
   decodable |-> TRUE, bytes |-> t]

\* The files named as code.  `decodable` is FALSE for a file whose bytes are
\* not UTF-8 (a binary under a code file's name).
CodeChoices(i) ==
  {CodeFile(i, t) : t \in Texts}
  \cup {[stem |-> i, ext |-> ".py", size |-> 5010, exists |-> TRUE,
         decodable |-> FALSE, bytes |-> <<>>]}

\* The files not named as code, whose bytes the run never reads: a data
\* file, a shared library, and a name that os.walk lists but that has no
\* file behind it (a broken symbolic link), for which `exists` is FALSE.
\* The sizes put the limit of a tree at 1, at 2, in the hundreds or at the
\* clamp.
OtherChoices(i) ==
  {[stem |-> i, ext |-> ".txt", size |-> 50000, exists |-> TRUE,
    decodable |-> TRUE, bytes |-> <<>>]}
  \cup {[stem |-> i, ext |-> ".so", size |-> 5020, exists |-> TRUE,
         decodable |-> FALSE, bytes |-> <<>>]}
  \cup {[stem |-> i, ext |-> ".txt", size |-> 0, exists |-> FALSE,
         decodable |-> TRUE, bytes |-> <<>>]}

RECURSIVE CodeTreesOfLen(_)
CodeTreesOfLen(n) ==
  IF n = 0 THEN {<<>>}
  ELSE {Append(t, f) : t \in CodeTreesOfLen(n - 1), f \in CodeChoices(n)}

\* A project directory: up to MaxFiles files named as code, then at most one
\* file that is not.
Trees ==
  LET code == UNION {CodeTreesOfLen(n) : n \in 0..MaxFiles}
  IN code \cup {Append(t, f) : t \in code, f \in OtherChoices(MaxFiles + 1)}

\* ------------------------------------------------------------------ state
VARIABLES
  pc,               \* where main() is
  tree,             \* the project directory: its files in os.walk order
  mode,             \* --type
  action,           \* --action
  target_chunks,    \* calculate_dynamic_token_limit's target_chunks
  size_idx,         \* the file the size pass is at
  total_size,       \* calculate_dynamic_token_limit's total_size
  token_limit,      \* the limit main() holds
  folder_structure, \* display_folder_structure's result
  walk_idx,         \* the file process_directory is at
  file_map,         \* process_directory's file_map, in insertion order
  fi,               \* the file_map entry the delivery loop is at
  ci,               \* the chunk of that entry the delivery loop is at
  file_counter,     \* save_chunks_to_files's file_counter
  delivered,        \* the requests sent, or the files written, in order
  failures          \* how many requests raised ("Error processing chunk")

vars == <<pc, tree, mode, action, target_chunks, size_idx, total_size,
          token_limit, folder_structure, walk_idx, file_map, fi, ci,
          file_counter, delivered, failures>>

\* ---------------------------------------------------------------- helpers
Min(a, b) == IF a < b THEN a ELSE b

detect_file_type(ext) ==
  IF ext \in CODE_FILE_EXTENSIONS THEN "code"
  ELSE IF ext \in AUXILIARY_FILE_EXTENSIONS THEN "auxiliary"
  ELSE "other"

\* os.path.relpath(file_path, directory) of a file of the top directory.
RelativePath(f) == <<f.stem, f.ext>>

\* str.splitlines(keepends=True): every line keeps its terminator; a last
\* line without one is a line too; the empty text has no lines.
RECURSIVE SplitFrom(_, _, _, _)
SplitFrom(s, i, cur, acc) ==
  IF i > Len(s) THEN (IF cur = <<>> THEN acc ELSE Append(acc, cur))
  ELSE IF s[i] = "\n" THEN SplitFrom(s, i + 1, <<>>, Append(acc, Append(cur, s[i])))
  ELSE SplitFrom(s, i + 1, Append(cur, s[i]), acc)

splitlines(s) == SplitFrom(s, 1, <<>>, <<>>)

\* Lines 65-66: open(file_path, "r", encoding="utf-8").read().  Text mode
\* with the default newline reads "\r\n" and a lone "\r" as "\n".
RECURSIVE ReadFrom(_, _)
ReadFrom(b, i) ==
  IF i > Len(b) THEN <<>>
  ELSE IF b[i] = "\r"
       THEN <<"\n">> \o ReadFrom(b, IF i < Len(b) /\ b[i + 1] = "\n" THEN i + 2 ELSE i + 1)
       ELSE <<b[i]>> \o ReadFrom(b, i + 1)

read_text(b) == ReadFrom(b, 1)

\* ---------------------------------------------------------------- budget
\* Lines 42-46: the limit from the total size and the target chunk count.
\* Python's // on a non-negative total and a positive target is \div.
\* The same without line 44's clamp.
calculate_dynamic_token_limit_unclamped(total, target) ==
  (total \div target) - SAFE_MARGIN

calculate_dynamic_token_limit(total, target) ==
  Min((total \div target) - SAFE_MARGIN, HARD_CEILING - SAFE_MARGIN)

\* --------------------------------------------------------------- chunker
\* Lines 71-83: the loop over the lines and the final flush.
RECURSIVE ChunkLoop(_, _, _, _, _)
ChunkLoop(lines, i, chunks, current_chunk, limit) ==
  IF i > Len(lines)
  THEN (IF current_chunk # <<>> THEN Append(chunks, current_chunk) ELSE chunks)
  ELSE IF Len(current_chunk \o lines[i]) < limit
       THEN ChunkLoop(lines, i + 1, chunks, current_chunk \o lines[i], limit)
       ELSE ChunkLoop(lines, i + 1, Append(chunks, current_chunk), lines[i], limit)

\* Line 74 with <= for <.
RECURSIVE ChunkLoopLe(_, _, _, _, _)
ChunkLoopLe(lines, i, chunks, current_chunk, limit) ==
  IF i > Len(lines)
  THEN (IF current_chunk # <<>> THEN Append(chunks, current_chunk) ELSE chunks)
  ELSE IF Len(current_chunk \o lines[i]) <= limit
       THEN ChunkLoopLe(lines, i + 1, chunks, current_chunk \o lines[i], limit)
       ELSE ChunkLoopLe(lines, i + 1, Append(chunks, current_chunk), lines[i], limit)

get_file_chunks_le(f, limit) ==
  IF ~f.decodable THEN <<>>
  ELSE ChunkLoopLe(splitlines(read_text(f.bytes)), 1, <<>>, <<>>, limit)

\* Lines 67-69 replaced by a read that puts a mark where it cannot decode.
get_file_chunks_lossy(f, limit) ==
  ChunkLoop(splitlines(IF f.decodable THEN read_text(f.bytes) ELSE <<"?", "\n">>),
            1, <<>>, <<>>, limit)

\* Lines 62-83.  A file that does not decode gives no chunks.
get_file_chunks(f, limit) ==
  IF ~f.decodable THEN <<>>
  ELSE ChunkLoop(splitlines(read_text(f.bytes)), 1, <<>>, <<>>, limit)

\* ------------------------------------------------------- units delivered
\* Line 93: the labelled text of the user message that carries a chunk.
ApiContentText(relative_path, chunk, chunk_number, act) ==
  [File |-> relative_path, ChunkNumber |-> chunk_number, Action |-> act,
   Content |-> chunk]

\* Lines 88-101: the request send_chunk_to_gpt makes.
ApiRequest(relative_path, chunk, chunk_number, structure, act) ==
  [kind |-> "content",
   system |-> "You will receive a large codebase in multiple chunks with metadata.",
   structure |-> structure,
   text |-> ApiContentText(relative_path, chunk, chunk_number, act),
   max_tokens |-> Min(Len(chunk) + SAFE_MARGIN, HARD_CEILING - SAFE_MARGIN)]

\* Line 149 with chunk_number for chunk_number + 1.
WebContentTextFromZero(relative_path, chunk, chunk_number) ==
  [File |-> relative_path, ChunkNumber |-> chunk_number - 1, Content |-> chunk]

\* Lines 148-151: the text of a chunk's file.
WebContentText(relative_path, chunk, chunk_number) ==
  [File |-> relative_path, ChunkNumber |-> chunk_number, Content |-> chunk]

\* Line 157: action.replace("-", " ").title()
FormatAction(act) ==
  CASE act = "summarize" -> "Summarize"
    [] act = "analyze" -> "Analyze"
    [] act = "improve" -> "Improve"
    [] act = "explain" -> "Explain"
    [] act = "code-review" -> "Code Review"
    [] act = "usage" -> "Usage"
    [] act = "generate-readme" -> "Generate Readme"
    [] act = "instructions" -> "Instructions"

\* Lines 164-180: the instruction written after the action's name.
Instruction(act) ==
  CASE act = "summarize" -> "Summarize the code"
    [] act = "analyze" -> "Perform a detailed analysis"
    [] act = "improve" -> "Provide suggestions and improvements"
    [] act = "explain" -> "Explain the code in detail"
    [] act = "code-review" -> "Conduct a detailed code review"
    [] act = "usage" -> "Generate usage examples"
    [] act = "generate-readme" -> "Create a downloadable README.md"
    [] act = "instructions" -> "Provide detailed installation or compilation instructions"
    [] OTHER -> ""

\* A chunk_<num>.txt file as written.
Artifact(num, kind, text) == [num |-> num, kind |-> kind, text |-> text]

\* ------------------------------------------------------------------- Init
NoLimit == -1000000

InitWith(trees, targets, modes, actions) ==
  /\ pc = "size"
  /\ tree \in trees
  /\ mode \in modes
  /\ action \in actions
  /\ target_chunks \in targets
  /\ size_idx = 1
  /\ total_size = 0
  /\ token_limit = NoLimit
  /\ folder_structure = <<>>
  /\ walk_idx = 1
  /\ file_map = <<>>
  /\ fi = 1
  /\ ci = 1
  /\ file_counter = 0
  /\ delivered = <<>>
  /\ failures = 0

\* main() as started from the command line: line 273 passes no target.
Init == InitWith(Trees, {DEFAULT_TARGET_CHUNKS}, Modes, Actions)

\* ------------------------------------------------- the size pass (34-46)
\* Lines 38-40, one file: os.path.getsize raises OSError for a name with no
\* file behind it, and nothing up to main() catches it.
SizeStep ==
  /\ pc = "size"
  /\ size_idx <= Len(tree)
  /\ IF tree[size_idx].exists
     THEN /\ total_size' = total_size + tree[size_idx].size
          /\ size_idx' = size_idx + 1
          /\ pc' = pc
     ELSE /\ pc' = "crashed"
          /\ UNCHANGED <<total_size, size_idx>>
  /\ UNCHANGED <<tree, mode, action, target_chunks, token_limit,
                 folder_structure, walk_idx, file_map, fi, ci, file_counter,
                 delivered, failures>>

\* Lines 42-46 and 273.
SizeDone ==
  /\ pc = "size"
  /\ size_idx > Len(tree)
  /\ token_limit' = calculate_dynamic_token_limit(total_size, target_chunks)
  /\ pc' = "structure"
  /\ UNCHANGED <<tree, mode, action, target_chunks, size_idx, total_size,
                 folder_structure, walk_idx, file_map, fi, ci, file_counter,
                 delivered, failures>>

\* ------------------------------------------ process_directory (185-210)
\* Lines 49-59 and 189: the directory's line, then one line per file.
display_folder_structure(t) ==
  <<"project/">> \o [i \in 1..Len(t) |-> RelativePath(t[i])]

DisplayStructure ==
  /\ pc = "structure"
  /\ folder_structure' = display_folder_structure(tree)
  /\ pc' = "walk"
  /\ UNCHANGED <<tree, mode, action, target_chunks, size_idx, total_size,
                 token_limit, walk_idx, file_map, fi, ci, file_counter,
                 delivered, failures>>

\* Lines 193-207 with the files mapped last first.
ProcessFileLastFirst ==
  /\ pc = "walk"
  /\ walk_idx <= Len(tree)
  /\ LET f == tree[walk_idx] IN
       file_map' =
         IF detect_file_type(f.ext) = "code"
         THEN <<[path |-> RelativePath(f),
                 chunks |-> get_file_chunks(f, token_limit)]>> \o file_map
         ELSE file_map
  /\ walk_idx' = walk_idx + 1
  /\ UNCHANGED <<pc, tree, mode, action, target_chunks, size_idx, total_size,
                 token_limit, folder_structure, fi, ci, file_counter,
                 delivered, failures>>

\* Lines 193-207, one file.
ProcessFile ==
  /\ pc = "walk"
  /\ walk_idx <= Len(tree)
  /\ LET f == tree[walk_idx] IN
       file_map' =
         IF detect_file_type(f.ext) = "code"
         THEN Append(file_map, [path |-> RelativePath(f),
                                chunks |-> get_file_chunks(f, token_limit)])
         ELSE file_map
  /\ walk_idx' = walk_idx + 1
  /\ UNCHANGED <<pc, tree, mode, action, target_chunks, size_idx, total_size,
                 token_limit, folder_structure, fi, ci, file_counter,
                 delivered, failures>>

\* Lines 209-210 and 279-285: the walk is over, main() picks the sink.
ProcessDone ==
  /\ pc = "walk"
  /\ walk_idx > Len(tree)
  /\ pc' = IF mode = "api" THEN "api" ELSE "web_preamble"
  /\ UNCHANGED <<tree, mode, action, target_chunks, size_idx, total_size,
                 token_limit, folder_structure, walk_idx, file_map, fi, ci,
                 file_counter, delivered, failures>>

\* --------------------------------------------- process_with_api (108-117)
\* Lines 103-105 without the except: what the request raises ends the run.
PcAfterSendUncaught(raised) == IF raised THEN "crashed" ELSE "api"

\* Lines 103-105: whatever the request raises is caught and logged, and
\* send_chunk_to_gpt returns None: the loop of line 113 goes on.
PcAfterSend(raised) == "api"

\* Lines 113-117, one chunk: one request, answered or failed.
ApiSend ==
  /\ pc = "api"
  /\ fi <= Len(file_map)
  /\ ci <= Len(file_map[fi].chunks)
  /\ delivered' = Append(delivered,
       ApiRequest(file_map[fi].path, file_map[fi].chunks[ci], (ci - 1) + 1,
                  folder_structure, action))
  /\ \E raised \in BOOLEAN :
       /\ failures' = IF raised THEN failures + 1 ELSE failures
       /\ pc' = PcAfterSend(raised)
  /\ ci' = ci + 1
  /\ UNCHANGED <<tree, mode, action, target_chunks, size_idx, total_size,
                 token_limit, folder_structure, walk_idx, file_map, fi,
                 file_counter>>

\* Line 111: the chunks of this file are through, on to the next file.
ApiNextFile ==
  /\ pc = "api"
  /\ fi <= Len(file_map)
  /\ ci > Len(file_map[fi].chunks)
  /\ fi' = fi + 1
  /\ ci' = 1
  /\ UNCHANGED <<pc, tree, mode, action, target_chunks, size_idx, total_size,
                 token_limit, folder_structure, walk_idx, file_map,
                 file_counter, delivered, failures>>

\* Lines 111 and 287: no file is left.
ApiDone ==
  /\ pc = "api"
  /\ fi > Len(file_map)
  /\ pc' = "done"
  /\ UNCHANGED <<tree, mode, action, target_chunks, size_idx, total_size,
                 token_limit, folder_structure, walk_idx, file_map, fi, ci,
                 file_counter, delivered, failures>>

\* ----------------------------------------- save_chunks_to_files (120-181)
\* Line 153 left out.
NextFileCounterStuck(c) == c

\* Line 153.
NextFileCounter(c) == c + 1

\* Lines 126-143: chunk_0.txt, then file_counter = 1.
WritePreamble ==
  /\ pc = "web_preamble"
  /\ delivered' = Append(delivered,
       Artifact(0, "preamble",
                [Header |-> "### Initial Instructions for ChatGPT ###",
                 FolderStructure |-> folder_structure]))
  /\ file_counter' = 1
  /\ pc' = "web_chunks"
  /\ UNCHANGED <<tree, mode, action, target_chunks, size_idx, total_size,
                 token_limit, folder_structure, walk_idx, file_map, fi, ci,
                 failures>>

\* Lines 145-153, one chunk.
WebWrite ==
  /\ pc = "web_chunks"
  /\ fi <= Len(file_map)
  /\ ci <= Len(file_map[fi].chunks)
  /\ delivered' = Append(delivered,
       Artifact(file_counter, "content",
                WebContentText(file_map[fi].path, file_map[fi].chunks[ci],
                               (ci - 1) + 1)))
  /\ file_counter' = NextFileCounter(file_counter)
  /\ ci' = ci + 1
  /\ UNCHANGED <<pc, tree, mode, action, target_chunks, size_idx, total_size,
                 token_limit, folder_structure, walk_idx, file_map, fi,
                 failures>>

\* Line 144: the chunks of this file are through, on to the next file.
WebNextFile ==
  /\ pc = "web_chunks"
  /\ fi <= Len(file_map)
  /\ ci > Len(file_map[fi].chunks)
  /\ fi' = fi + 1
  /\ ci' = 1
  /\ UNCHANGED <<pc, tree, mode, action, target_chunks, size_idx, total_size,
                 token_limit, folder_structure, walk_idx, file_map,
                 file_counter, delivered, failures>>

\* Lines 155-181 and 287: the final instructions, in chunk_<file_counter>.txt.
WriteClosing ==
  /\ pc = "web_chunks"
  /\ fi > Len(file_map)
  /\ delivered' = Append(delivered,
       Artifact(file_counter, "closing",
                [Header |-> "### Final Instructions for ChatGPT ###",
                 Action |-> FormatAction(action),
                 Body |-> Instruction(action)]))
  /\ pc' = "done"
  /\ UNCHANGED <<tree, mode, action, target_chunks, size_idx, total_size,
                 token_limit, folder_structure, walk_idx, file_map, fi, ci,
                 file_counter, failures>>

\* --------------------------------------------------------- specifications
Next ==
  \/ SizeStep
  \/ SizeDone
  \/ DisplayStructure
  \/ ProcessFile
  \/ ProcessDone
  \/ ApiSend
  \/ ApiNextFile
  \/ ApiDone
  \/ WritePreamble
  \/ WebWrite
  \/ WebNextFile
  \/ WriteClosing

\* One run of main().
Spec == Init /\ [][Next]_vars

\* calculate_dynamic_token_limit alone, on any tree and any target from 1 up.
InitBudget == InitWith(Trees, 1..MaxTarget \cup {DEFAULT_TARGET_CHUNKS}, {"api"}, Actions)

NextBudget ==
  \/ SizeStep
  \/ SizeDone

BudgetSpec == InitBudget /\ [][NextBudget]_vars

\* get_file_chunks alone, under every limit from below zero to above the
\* longest text.
LimitRange == (-1)..(MaxLen + 3)

ChunkTrees == {<<CodeFile(1, t)>> : t \in WideTexts}

InitChunk ==
  /\ pc = "walk"
  /\ tree \in ChunkTrees
  /\ mode = "api"
  /\ action \in Actions
  /\ target_chunks = DEFAULT_TARGET_CHUNKS
  /\ size_idx = 1
  /\ total_size = 0
  /\ token_limit \in LimitRange
  /\ folder_structure = <<>>
  /\ walk_idx = 1
  /\ file_map = <<>>
  /\ fi = 1
  /\ ci = 1
  /\ file_counter = 0
  /\ delivered = <<>>
  /\ failures = 0

NextChunk == ProcessFile

ChunkSpec == InitChunk /\ [][NextChunk]_vars

\* ------------------------------------------------ vocabulary of the claims
RECURSIVE Concat(_)
Concat(ss) == IF ss = <<>> THEN <<>> ELSE Head(ss) \o Concat(Tail(ss))

\* The lines of every chunk, chunk after chunk.
RECURSIVE LinesOfChunks(_)
LinesOfChunks(chunks) ==
  IF chunks = <<>> THEN <<>>
  ELSE splitlines(Head(chunks)) \o LinesOfChunks(Tail(chunks))

RECURSIVE SumSizes(_)
SumSizes(t) == IF t = <<>> THEN 0 ELSE Head(t).size + SumSizes(Tail(t))

IsCode(f) == f.ext \in CODE_FILE_EXTENSIONS

\* The processable files of a tree, in walk order.
CodeFiles(t) == SelectSeq(t, IsCode)

\* A tree without its processable files that do not decode.
IsReadableOrNotCode(f) == ~IsCode(f) \/ f.decodable
WithoutUndecodable(t) == SelectSeq(t, IsReadableOrNotCode)

RECURSIVE SumChunks(_)
SumChunks(fm) ==
  IF fm = <<>> THEN 0 ELSE Len(Head(fm).chunks) + SumChunks(Tail(fm))

\* What identifies a content unit: its file, its index in the file, its chunk.
Key(path, n, chunk) == [File |-> path, ChunkNumber |-> n, Content |-> chunk]

KeyOf(u) == Key(u.text.File, u.text.ChunkNumber, u.text.Content)

\* The content units a tree gives under a limit: file after file in walk
\* order and, within a file, chunk after chunk, numbered from 1.
RECURSIVE ExpectedKeys(_, _)
ExpectedKeys(t, limit) ==
  IF t = <<>> THEN <<>>
  ELSE LET f == Head(t)
           chunks == get_file_chunks(f, limit)
       IN (IF IsCode(f)
           THEN [n \in 1..Len(chunks) |-> Key(RelativePath(f), n, chunks[n])]
           ELSE <<>>) \o ExpectedKeys(Tail(t), limit)

IsContent(u) == u.kind = "content"

\* The content units delivered so far, in delivery order.
DeliveredKeys ==
  LET content == SelectSeq(delivered, IsContent)
  IN [i \in 1..Len(content) |-> KeyOf(content[i])]

IsPrefix(s, t) == Len(s) <= Len(t) /\ s = SubSeq(t, 1, Len(s))

Finished == pc = "done"

\* The limit main() would compute for a tree.
LimitOf(t) == calculate_dynamic_token_limit(SumSizes(t), DEFAULT_TARGET_CHUNKS)

\* ----------------------------------------------------------------- claims

\* C1 (ChunkSpec).  Reconstruction: under a positive limit, the chunks of a
\* decodable file, concatenated in order, are exactly the file's content,
\* every line with the terminator it has in the file.
C1_Reconstruction ==
  token_limit > 0 =>
    \A k \in 1..Len(file_map) :
      LET f == CodeFiles(tree)[k] IN
        f.decodable => Concat(file_map[k].chunks) = f.bytes

\* What does hold of the chunks, under every limit: concatenated they are the
\* text as read, and their lines, chunk after chunk, are the lines of that
\* text, none lost, duplicated, reordered or split.
ReadTextReconstruction ==
  \A k \in 1..Len(file_map) :
    LET f == CodeFiles(tree)[k] IN
      f.decodable =>
        /\ Concat(file_map[k].chunks) = read_text(f.bytes)
        /\ LinesOfChunks(file_map[k].chunks) = splitlines(read_text(f.bytes))

\* The chunks of entry k that are not below the limit.
Oversized(k) ==
  {j \in 1..Len(file_map[k].chunks) : Len(file_map[k].chunks[j]) >= token_limit}

\* C2 as stated (ChunkSpec).  Under a positive limit at most one chunk of a
\* file is not below the limit, and that one is a single whole line.
C2_AtMostOneOversized ==
  token_limit > 0 =>
    \A k \in 1..Len(file_map) :
      /\ Cardinality(Oversized(k)) <= 1
      /\ \A j \in Oversized(k) : Len(splitlines(file_map[k].chunks[j])) = 1

\* C2 as amended (ChunkSpec).  Under a positive limit every chunk of a file
\* is below the limit or is a single whole line of the file that is itself
\* not below the limit; a file has as many such chunks as it has such lines.
C2_OversizedAreSingleLines ==
  token_limit > 0 =>
    \A k \in 1..Len(file_map) :
      LET lines == splitlines(read_text(CodeFiles(tree)[k].bytes)) IN
        /\ \A j \in Oversized(k) :
             /\ splitlines(file_map[k].chunks[j]) = <<file_map[k].chunks[j]>>
             /\ \E i \in 1..Len(lines) : lines[i] = file_map[k].chunks[j]
        /\ Cardinality(Oversized(k))
             = Cardinality({i \in 1..Len(lines) : Len(lines[i]) >= token_limit})

\* Two chunks of one file are not below a positive limit.
C2_Witness ==
  /\ token_limit > 0
  /\ \E k \in 1..Len(file_map) : Cardinality(Oversized(k)) >= 2

\* C3 as stated (Spec).  At the end of a run, in either mode, the units
\* delivered are 2 + sum(c_i): the preamble, the content units in file then
\* chunk order, the closing.
C3_ShapeInEitherMode ==
  Finished =>
    /\ Len(delivered) = 2 + SumChunks(file_map)
    /\ delivered[1].kind = "preamble"
    /\ delivered[Len(delivered)].kind = "closing"
    /\ \A i \in 2..(Len(delivered) - 1) : delivered[i].kind = "content"
    /\ DeliveredKeys = ExpectedKeys(tree, token_limit)

\* C3 as amended (Spec).  In web mode the units are as stated.  In api mode
\* the units are the sum(c_i) content units alone, in file then chunk order,
\* and each request carries the orientation text and the structure listing;
\* no preamble and no closing unit is sent.
C3_ShapePerMode ==
  Finished =>
    /\ DeliveredKeys = ExpectedKeys(tree, token_limit)
    /\ Len(ExpectedKeys(tree, token_limit)) = SumChunks(file_map)
    /\ mode = "web" =>
         /\ Len(delivered) = 2 + SumChunks(file_map)
         /\ delivered[1].kind = "preamble"
         /\ delivered[Len(delivered)].kind = "closing"
         /\ \A i \in 2..(Len(delivered) - 1) : delivered[i].kind = "content"
    /\ mode = "api" =>
         /\ Len(delivered) = SumChunks(file_map)
         /\ \A i \in 1..Len(delivered) :
              /\ delivered[i].kind = "content"
              /\ delivered[i].structure = display_folder_structure(tree)
              /\ delivered[i].system # ""

\* An api run ended after sending the chunks of two files.
C3_Witness ==
  /\ Finished
  /\ mode = "api"
  /\ Len(file_map) = 2
  /\ \A k \in 1..Len(file_map) : Len(file_map[k].chunks) >= 1
  /\ Len(delivered) >= 3

\* C4 (ChunkSpec).  Under a limit of zero or less, a file of N >= 1 lines
\* gives exactly N chunks, the k-th being the k-th line.
C4_OneChunkPerLine ==
  token_limit <= 0 =>
    \A k \in 1..Len(file_map) :
      LET f == CodeFiles(tree)[k] IN
        (f.decodable /\ Len(splitlines(read_text(f.bytes))) >= 1) =>
          file_map[k].chunks = splitlines(read_text(f.bytes))

\* C5 (Spec).  In web mode the i-th file written is chunk_<i-1>: the numbers
\* rise by one from 0, none is skipped or written twice, also past files
\* that gave no chunk; at the end they are 0..K-1 for the K = 2 + sum(c_i)
\* units.
C5_ArtifactNumbering ==
  mode = "web" =>
    /\ \A i \in 1..Len(delivered) : delivered[i].num = i - 1
    /\ Finished =>
         /\ Len(delivered) = 2 + SumChunks(file_map)
         /\ {delivered[i].num : i \in 1..Len(delivered)}
              = 0..(1 + SumChunks(file_map))

\* A web run ended; a file with no chunk came before a file with chunks.
C5_Witness ==
  /\ Finished
  /\ mode = "web"
  /\ Len(file_map) = 2
  /\ file_map[1].chunks = <<>>
  /\ Len(file_map[2].chunks) >= 2

\* What the sending loop has left to do: the chunks not yet sent and the
\* files not yet passed.
ApiLeft ==
  IF fi > Len(file_map) THEN 0
  ELSE (SumChunks(SubSeq(file_map, fi, Len(file_map))) - (ci - 1))
       + (Len(file_map) - fi + 1)

\* C6 (Spec).  In api mode the requests sent so far are always the first
\* content units in file then chunk order, one request per unit, whatever
\* requests failed, and at the end all were sent.  The run reaches its end:
\* in the sending loop a step can always be taken, and every step, after a
\* failed request as after an answered one, either ends the run with nothing
\* left to send or stays in the loop with less left to do.
C6_FailureIsolation ==
  /\ [](mode = "api" =>
          /\ IsPrefix(DeliveredKeys, ExpectedKeys(tree, token_limit))
          /\ Len(delivered) = Len(DeliveredKeys)
          /\ failures <= Len(delivered)
          /\ Finished => DeliveredKeys = ExpectedKeys(tree, token_limit)
          /\ pc = "api" => (ApiLeft >= 0 /\ ENABLED Next))
  /\ [][pc = "api" =>
          \/ pc' = "done" /\ ApiLeft = 0
          \/ pc' = "api" /\ ApiLeft' < ApiLeft]_vars

\* An api run ended in which every request failed, and there were several.
C6_Witness ==
  /\ Finished
  /\ mode = "api"
  /\ Len(delivered) >= 2
  /\ failures = Len(delivered)

\* C7 as stated (Spec).  Every content unit delivered, request or file,
\* carries its file's path, its chunk index, the action and the chunk.
C7_EveryUnitCarriesAction ==
  /\ IsPrefix(DeliveredKeys, ExpectedKeys(tree, token_limit))
  /\ \A i \in 1..Len(delivered) :
       IsContent(delivered[i]) =>
         /\ "Action" \in DOMAIN delivered[i].text
         /\ delivered[i].text.Action = action

\* C7 as amended (Spec).  Every content unit delivered carries its file's
\* path, its chunk index counted from 1 within the file, and the chunk
\* unchanged; a request carries the action as well, a chunk file carries no
\* action.
C7_Labelling ==
  /\ IsPrefix(DeliveredKeys, ExpectedKeys(tree, token_limit))
  /\ \A i \in 1..Len(delivered) :
       IsContent(delivered[i]) =>
         /\ mode = "api" =>
              /\ DOMAIN delivered[i].text = {"File", "ChunkNumber", "Action", "Content"}
              /\ delivered[i].text.Action = action
         /\ mode = "web" =>
              DOMAIN delivered[i].text = {"File", "ChunkNumber", "Content"}

\* A web run ended that wrote two chunks of one file and then the first
\* chunk of the next.
C7_Witness ==
  /\ Finished
  /\ mode = "web"
  /\ \E i \in 1..Len(delivered) :
       /\ i + 2 <= Len(delivered)
       /\ IsContent(delivered[i]) /\ delivered[i].text.ChunkNumber = 1
       /\ IsContent(delivered[i + 1]) /\ delivered[i + 1].text.ChunkNumber = 2
       /\ IsContent(delivered[i + 2]) /\ delivered[i + 2].text.ChunkNumber = 1
       /\ delivered[i + 2].text.File # delivered[i].text.File

\* C8 (Spec).  The size pass is never what ends a run: a file that cannot be
\* sized counts for 0 and the pass goes on to return a limit.
C8_SizePassGoesOn == pc # "crashed"

\* The entries of file_map whose file does not decode.
UndecodableEntries ==
  {k \in 1..Len(file_map) : ~CodeFiles(tree)[k].decodable}

\* C9 as stated (Spec), where the limit of the run and the limit of the tree
\* without the file are both positive.  A file that does not decode gives no
\* chunk and no content unit, and at the end of the run the content units
\* delivered are those of the run on the tree without that file.
C9_AsIfAbsent ==
  /\ \A k \in UndecodableEntries : file_map[k].chunks = <<>>
  /\ (Finished /\ token_limit > 0 /\ LimitOf(WithoutUndecodable(tree)) > 0) =>
       DeliveredKeys
         = ExpectedKeys(WithoutUndecodable(tree), LimitOf(WithoutUndecodable(tree)))

\* C9 as amended (Spec).  A file that does not decode gives no chunk and no
\* content unit, and at the end of the run the content units delivered are
\* those of the tree without that file under the limit of this run: the
\* file's bytes still count in the limit.
C9_AsIfAbsentUnderSameLimit ==
  /\ \A k \in UndecodableEntries : file_map[k].chunks = <<>>
  /\ \A i \in 1..Len(delivered) :
       IsContent(delivered[i]) =>
         \A k \in UndecodableEntries : delivered[i].text.File # file_map[k].path
  /\ Finished =>
       DeliveredKeys = ExpectedKeys(WithoutUndecodable(tree), token_limit)

\* A run ended that held a file that does not decode and delivered the
\* chunks of another file, cut under a positive limit that is not the
\* positive limit of the tree without the file.
C9_Witness ==
  /\ Finished
  /\ UndecodableEntries # {}
  /\ Len(DeliveredKeys) >= 1
  /\ token_limit > 0
  /\ LimitOf(WithoutUndecodable(tree)) > 0
  /\ LimitOf(WithoutUndecodable(tree)) # token_limit

\* C10 (BudgetSpec).  The limit returned for a tree and a positive target is
\* min(floor(total / target) - 500, 4000 - 500), the total over the files of
\* every kind, and so is at most 3500.
C10_BudgetClamp ==
  pc = "structure" =>
    /\ token_limit =
         Min((SumSizes(tree) \div target_chunks) - 500, 4000 - 500)
    /\ token_limit <= 3500

\* A limit was returned for a tree whose unclamped limit is above 3500 and
\* whose bytes are not all in code files.
C10_Witness ==
  /\ pc = "structure"
  /\ (SumSizes(tree) \div target_chunks) - 500 > 3500
  /\ token_limit = 3500
  /\ \E i \in 1..Len(tree) : ~IsCode(tree[i]) /\ tree[i].size > 0
  /\ target_chunks # DEFAULT_TARGET_CHUNKS

====
